---- MODULE Spec2Model ----
(***************************************************************************)
(* repology/transformer.py: PackageTransformer.                            *)
(*                                                                         *)
(* A Python str is a sequence of one-character strings (<<"f","o","o">>),  *)
(* so that regular expressions, templates, replace(), lower() and split()  *)
(* are computed character by character.  The category and the family of a  *)
(* package are only ever compared for equality (list membership), and are  *)
(* kept as atomic strings.  A rule is a dict: a function whose DOMAIN is   *)
(* the set of keys the rule declares, so that  'k' in rule  is             *)
(* "k" \in DOMAIN rule.                                                    *)
(***************************************************************************)
EXTENDS Integers, Sequences, FiniteSets, TLC

\* Longest rule document and number of Process calls explored.
MaxRules == 2
MaxCalls == 2
\* Threads that call Process on the one PackageTransformer.
NumThreads == 2

(***************************************************************************)
(* Strings                                                                 *)
(***************************************************************************)
Digits == <<"0", "1", "2", "3", "4", "5", "6", "7", "8", "9">>
Uppers == <<"A", "B", "C", "D", "E", "F", "G", "H", "I", "J", "K", "L", "M",
            "N", "O", "P", "Q", "R", "S", "T", "U", "V", "W", "X", "Y", "Z">>
Lowers == <<"a", "b", "c", "d", "e", "f", "g", "h", "i", "j", "k", "l", "m",
            "n", "o", "p", "q", "r", "s", "t", "u", "v", "w", "x", "y", "z">>

IndexIn(seq, c) == IF \E i \in DOMAIN seq : seq[i] = c
                   THEN CHOOSE i \in DOMAIN seq : seq[i] = c
                   ELSE 0

IsDigit(c) == IndexIn(Digits, c) # 0
DigitVal(c) == IndexIn(Digits, c) - 1
IsLetter(c) == IndexIn(Uppers, c) # 0 \/ IndexIn(Lowers, c) # 0

\* x in list
InList(x, list) == \E i \in DOMAIN list : list[i] = x

\* s[pos:].startswith(t)
StartsAt(s, pos, t) ==
    /\ pos + Len(t) - 1 <= Len(s)
    /\ \A k \in 1..Len(t) : s[pos + k - 1] = t[k]

\* str.lower()
LowerChar(c) == IF IndexIn(Uppers, c) # 0 THEN Lowers[IndexIn(Uppers, c)] ELSE c
Lower(s) == [i \in DOMAIN s |-> LowerChar(s[i])]

\* the dots counted, the components not
SplitCountDots(s) == Cardinality({i \in DOMAIN s : s[i] = "."})

\* len(s.split('.'))
SplitCount(s) == Cardinality({i \in DOMAIN s : s[i] = "."}) + 1

\* str.replace(old, new): every non-overlapping occurrence, left to right;
\* an empty old matches before every character and at the end.
RECURSIVE ReplaceFrom(_, _, _, _)
ReplaceFrom(s, pos, old, new) ==
    IF pos > Len(s) THEN (IF old = <<>> THEN new ELSE <<>>)
    ELSE IF old = <<>> THEN new \o <<s[pos]>> \o ReplaceFrom(s, pos + 1, old, new)
    ELSE IF StartsAt(s, pos, old) THEN new \o ReplaceFrom(s, pos + Len(old), old, new)
    ELSE <<s[pos]>> \o ReplaceFrom(s, pos + 1, old, new)

Replace(s, old, new) == ReplaceFrom(s, 1, old, new)

(***************************************************************************)
(* Regular expressions.  A pattern is a sequence of tokens: a literal      *)
(* character, the capture group of any characters, and the end anchor that *)
(* re.compile(rule[field] + '$') appends.  match() anchors at the start,   *)
(* tries a greedy group longest first and backtracks; the dot matches no   *)
(* newline; the end anchor matches at the end and before a final newline.  *)
(***************************************************************************)
NoMatch == [ok |-> FALSE, groups |-> <<>>]

\* number of characters "." can take from pos on
RECURSIVE DotRun(_, _)
DotRun(s, pos) == IF pos > Len(s) \/ s[pos] = "\n" THEN 0 ELSE 1 + DotRun(s, pos + 1)

RECURSIVE MatchAt(_, _, _, _, _, _)
RECURSIVE MatchGroup(_, _, _, _, _, _, _)
MatchAt(pat, ti, s, start, pos, caps) ==
    IF ti > Len(pat)
    THEN [ok |-> TRUE, groups |-> <<SubSeq(s, start, pos - 1)>> \o caps]
    ELSE IF pat[ti] = "$"
    THEN IF pos = Len(s) + 1 \/ (pos = Len(s) /\ s[pos] = "\n")
         THEN MatchAt(pat, ti + 1, s, start, pos, caps)
         ELSE NoMatch
    ELSE IF pat[ti] = "(.*)"
    THEN MatchGroup(pat, ti, s, start, pos, caps, DotRun(s, pos))
    ELSE IF pos <= Len(s) /\ s[pos] = pat[ti]
         THEN MatchAt(pat, ti + 1, s, start, pos + 1, caps)
         ELSE NoMatch

MatchGroup(pat, ti, s, start, pos, caps, k) ==
    LET r == MatchAt(pat, ti + 1, s, start, pos + k,
                     Append(caps, SubSeq(s, pos, pos + k - 1)))
    IN  IF r.ok THEN r
        ELSE IF k = 0 THEN NoMatch
        ELSE MatchGroup(pat, ti, s, start, pos, caps, k - 1)

\* compiled.match(s): groups[1] is group 0 (the whole match), groups[n+1] is group n
Match(pat, s) == MatchAt(pat, 1, s, 1, 1, <<>>)

\* re.compile(source + "$", re.ASCII)
Compile(source) == Append(source, "$")

(***************************************************************************)
(* Template substitution (ApplyRule, the setname branch).  A call either   *)
(* returns a string or raises.                                             *)
(***************************************************************************)
Returned(s) == [raised |-> FALSE, out |-> s]
Raised == [raised |-> TRUE, out |-> <<>>]
Prepend(s, r) == IF r.raised THEN r ELSE Returned(s \o r.out)

\* length of the run [0-9]* at pos
RECURSIVE DigitRun(_, _)
DigitRun(s, pos) ==
    IF pos > Len(s) \/ ~IsDigit(s[pos]) THEN 0 ELSE 1 + DigitRun(s, pos + 1)

\* int(digits)
RECURSIVE IntOf(_)
IntOf(digits) ==
    IF digits = <<>> THEN 0
    ELSE 10 * IntOf(SubSeq(digits, 1, Len(digits) - 1)) + DigitVal(digits[Len(digits)])

\* match.group(n): IndexError for a group the pattern does not have
Group(m, n) == IF n + 1 <= Len(m.groups) THEN Returned(m.groups[n + 1]) ELSE Raised

\* self.dollarN.sub(lambda x: match.group(int(x.group(1))), template)
RECURSIVE DollarNSubFrom(_, _, _)
DollarNSubFrom(template, pos, m) ==
    IF pos > Len(template) THEN Returned(<<>>)
    ELSE IF template[pos] = "$" /\ DigitRun(template, pos + 1) > 0
    THEN LET n == DigitRun(template, pos + 1)
             g == Group(m, IntOf(SubSeq(template, pos + 1, pos + n)))
         IN  IF g.raised THEN Raised
             ELSE Prepend(g.out, DollarNSubFrom(template, pos + 1 + n, m))
    ELSE Prepend(<<template[pos]>>, DollarNSubFrom(template, pos + 1, m))

DollarNSub(template, m) == DollarNSubFrom(template, 1, m)

\* The replacement argument of re.sub is itself a template: a backslash
\* starts an escape.  Modelled: the escapes \\, \n, \t, \r, \f; a backslash
\* before another letter or a digit, or at the end, is an re.error; before
\* any other character it stays.  (\a, \b, \v, \0, octal and \g<..> are
\* outside the strings of this model.)
Escapes == <<"\\", "n", "t", "r", "f">>
Escaped == <<"\\", "\n", "\t", "\r", "\f">>

RECURSIVE ExpandReplFrom(_, _)
ExpandReplFrom(repl, pos) ==
    IF pos > Len(repl) THEN Returned(<<>>)
    ELSE IF repl[pos] # "\\"
    THEN Prepend(<<repl[pos]>>, ExpandReplFrom(repl, pos + 1))
    ELSE IF pos = Len(repl) THEN Raised
    ELSE IF IndexIn(Escapes, repl[pos + 1]) # 0
    THEN Prepend(<<Escaped[IndexIn(Escapes, repl[pos + 1])]>>,
                 ExpandReplFrom(repl, pos + 2))
    ELSE IF IsLetter(repl[pos + 1]) \/ IsDigit(repl[pos + 1]) THEN Raised
    ELSE Prepend(<<"\\", repl[pos + 1]>>, ExpandReplFrom(repl, pos + 2))

ExpandRepl(repl) == ExpandReplFrom(repl, 1)

\* self.dollar0.sub(pkgname, template)
Dollar0Sub(pkgname, template) ==
    LET e == ExpandRepl(pkgname)
    IN  IF e.raised THEN Raised
        ELSE Returned(Replace(template, <<"$", "0">>, e.out))

(***************************************************************************)
(* MatchResult                                                             *)
(***************************************************************************)
ignorepackage == 1
ignoreversion == 2
lastrule == 4
unignorepackage == 8
unignoreversion == 16

\* flags & bit
HasFlag(flags, bit) == (flags \div bit) % 2 = 1

(***************************************************************************)
(* MatchRule                                                               *)
(***************************************************************************)
\* MatchRule without its test of 'ver'
MatchRuleSkipVer(rule, pkgname, pkgversion, pkgcategory, pkgfamily) ==
    /\ "family" \in DOMAIN rule => InList(pkgfamily, rule.family)
    /\ "category" \in DOMAIN rule => InList(pkgcategory, rule.category)
    /\ "name" \in DOMAIN rule => InList(pkgname, rule.name)
    /\ "namepat" \in DOMAIN rule => Match(rule.namepat, pkgname).ok
    /\ "verpat" \in DOMAIN rule => Match(rule.verpat, pkgversion).ok
    /\ "verlonger" \in DOMAIN rule => SplitCount(pkgversion) > rule.verlonger

MatchRule(rule, pkgname, pkgversion, pkgcategory, pkgfamily) ==
    IF "family" \in DOMAIN rule /\ ~InList(pkgfamily, rule.family) THEN FALSE
    ELSE IF "category" \in DOMAIN rule /\ ~InList(pkgcategory, rule.category) THEN FALSE
    ELSE IF "name" \in DOMAIN rule /\ ~InList(pkgname, rule.name) THEN FALSE
    ELSE IF "namepat" \in DOMAIN rule /\ ~Match(rule.namepat, pkgname).ok THEN FALSE
    ELSE IF "ver" \in DOMAIN rule /\ ~InList(pkgversion, rule.ver) THEN FALSE
    ELSE IF "verpat" \in DOMAIN rule /\ ~Match(rule.verpat, pkgversion).ok THEN FALSE
    ELSE IF "verlonger" \in DOMAIN rule /\ ~(SplitCount(pkgversion) > rule.verlonger)
    THEN FALSE
    ELSE TRUE

(***************************************************************************)
(* ApplyRule: [raised, flags, name]                                        *)
(***************************************************************************)
RuleFlags(rule) ==
      (IF "ignore" \in DOMAIN rule THEN ignorepackage ELSE 0)
    + (IF "unignore" \in DOMAIN rule THEN unignorepackage ELSE 0)
    + (IF "ignorever" \in DOMAIN rule THEN ignoreversion ELSE 0)
    + (IF "unignorever" \in DOMAIN rule THEN unignoreversion ELSE 0)
    + (IF "last" \in DOMAIN rule THEN lastrule ELSE 0)

SetName(rule, pkgname) ==
    IF "setname" \notin DOMAIN rule THEN Returned(pkgname)
    ELSE LET m == IF "namepat" \in DOMAIN rule THEN Match(rule.namepat, pkgname)
                  ELSE NoMatch
         IN  IF m.ok THEN DollarNSub(rule.setname, m)
             ELSE Dollar0Sub(pkgname, rule.setname)

\* for pattern, replacement in rule['replaceinname'].items(): in dict order
RECURSIVE ReplaceAll(_, _, _)
ReplaceAll(pkgname, items, k) ==
    IF k > Len(items) THEN pkgname
    ELSE ReplaceAll(Replace(pkgname, items[k][1], items[k][2]), items, k + 1)

\* the pairs applied last to first
RECURSIVE ReplaceAllReversed(_, _, _)
ReplaceAllReversed(pkgname, items, k) ==
    IF k = 0 THEN pkgname
    ELSE ReplaceAllReversed(Replace(pkgname, items[k][1], items[k][2]), items, k - 1)

ReplaceInNameReversed(rule, pkgname) ==
    IF "replaceinname" \in DOMAIN rule
    THEN ReplaceAllReversed(pkgname, rule.replaceinname, Len(rule.replaceinname))
    ELSE pkgname

ReplaceInName(rule, pkgname) ==
    IF "replaceinname" \in DOMAIN rule THEN ReplaceAll(pkgname, rule.replaceinname, 1)
    ELSE pkgname

ToLowerName(rule, pkgname) ==
    IF "tolowername" \in DOMAIN rule THEN Lower(pkgname) ELSE pkgname

\* the name lowered before the replacements
ApplyRuleLowerFirst(rule, pkgname, pkgversion) ==
    LET set == SetName(rule, pkgname)
    IN  IF set.raised THEN [raised |-> TRUE, flags |-> 0, name |-> <<>>]
        ELSE [raised |-> FALSE,
              flags |-> RuleFlags(rule),
              name |-> ReplaceInName(rule, ToLowerName(rule, set.out))]

ApplyRule(rule, pkgname, pkgversion) ==
    LET set == SetName(rule, pkgname)
    IN  IF set.raised THEN [raised |-> TRUE, flags |-> 0, name |-> <<>>]
        ELSE [raised |-> FALSE,
              flags |-> RuleFlags(rule),
              name |-> ToLowerName(rule, ReplaceInName(rule, set.out))]

(***************************************************************************)
(* __init__: the rules are compiled, then arranged in packs                *)
(***************************************************************************)
\* pp.pformat(rule): the text of the rule as authored
Pformat(raw) == <<"pformat", raw>>

\* a scalar of the document is [scalar |-> s], a list is [list |-> <<s, ...>>]
ToList(v) == IF "list" \in DOMAIN v THEN v.list ELSE <<v.scalar>>

CompileRule(raw) ==
    ("matches" :> 0) @@ ("pretty" :> Pformat(raw)) @@
    [k \in DOMAIN raw |->
        IF k \in {"name", "ver", "category", "family"} THEN ToList(raw[k])
        ELSE IF k \in {"namepat", "verpat"} THEN Compile(raw[k])
        ELSE raw[k]]

CompileRules(doc) == [i \in DOMAIN doc |-> CompileRule(doc[i])]

\* The loop over self.rules.  A pack is [pre, pack]: pre is the lambda's body
\* and pack the list of the rules (their indices in self.rules) appended to
\* it.  The lambdas close over the local variable names, not over its value:
\* every  lambda name: name in names  reads the set that names is bound to
\* when the lambda is called, that is the last one __init__ bound.
RECURSIVE PackLoop(_, _, _, _, _)
PackLoop(rs, i, packs, nameset, pack) ==
    IF i > Len(rs)
    THEN [rulepacks |-> IF nameset # {}
                        THEN Append(packs, [pre |-> "name in names", pack |-> pack])
                        ELSE packs,
          names |-> nameset]
    ELSE IF "name" \in DOMAIN rs[i]
    THEN PackLoop(rs, i + 1, packs,
                  nameset \cup {rs[i].name[k] : k \in DOMAIN rs[i].name},
                  pack \o [k \in DOMAIN rs[i].name |-> i])
    ELSE PackLoop(rs, i + 1,
                  (IF nameset # {}
                   THEN Append(packs, [pre |-> "name in names", pack |-> pack])
                   ELSE packs) \o <<[pre |-> "True", pack |-> <<i>>]>>,
                  {}, <<>>)

BuildPacks(rs) == PackLoop(rs, 1, <<>>, {}, <<>>)

(***************************************************************************)
(* Inputs: rule documents and packages                                     *)
(***************************************************************************)
S_Foo == <<"F", "o", "o">>
S_foo == <<"f", "o", "o">>
S_libfoo == <<"l", "i", "b", "f", "o", "o">>
S_a == <<"a">>
S_b == <<"b">>
S_c == <<"c">>
\* a\\b: a name holding two backslashes
S_backslash == <<"a", "\\", "\\", "b">>
S_prefix0 == <<"p", "r", "e", "f", "i", "x", "-", "$", "0">>
V_1_0 == <<"1", ".", "0">>
V_1_2 == <<"1", ".", "2">>
V_1_2_3 == <<"1", ".", "2", ".", "3">>
P_lib == <<"l", "i", "b", "(.*)">>
S_A == <<"A">>
S_X == <<"X">>
S_A0 == <<"A", "$", "0">>
S_xa == <<"x", "a">>
S_lib0 == <<"l", "i", "b", "$", "0">>

RulePool == {
    [family |-> [scalar |-> "freebsd"], ignore |-> TRUE],
    [name |-> [scalar |-> S_Foo], setname |-> S_foo],
    [namepat |-> P_lib, setname |-> <<"$", "1">>],
    [setname |-> S_prefix0],
    [name |-> [list |-> <<S_Foo, S_foo>>], tolowername |-> TRUE, ignorever |-> TRUE],
    [name |-> [list |-> <<>>], ignore |-> TRUE],
    [verlonger |-> 2, ignorever |-> TRUE],
    [namepat |-> P_lib, setname |-> <<"$", "2">>, last |-> TRUE, ignore |-> TRUE],
    [name |-> [scalar |-> S_a], replaceinname |-> <<<<S_a, S_b>>, <<S_b, S_c>>>>,
     last |-> TRUE],
    [category |-> [list |-> <<"x">>], ver |-> [scalar |-> V_1_0],
     verpat |-> <<"1", "(.*)">>, ignore |-> TRUE, unignore |-> TRUE,
     ignorever |-> TRUE, unignorever |-> TRUE],
    [ver |-> [scalar |-> V_1_2], setname |-> S_A0,
     replaceinname |-> <<<<S_A, S_X>>>>, tolowername |-> TRUE],
    [family |-> [scalar |-> "freebsd"], setname |-> S_lib0] }

RECURSIVE DocsOfLen(_)
DocsOfLen(n) ==
    IF n = 0 THEN {<<>>}
    ELSE {Append(d, r) : d \in DocsOfLen(n - 1), r \in RulePool}

RuleDocs == UNION {DocsOfLen(n) : n \in 0..MaxRules}

\* a Package as the caller hands it over: no effname yet, the flags false
NewPackage(name, version, category, family) ==
    [name |-> name, version |-> version, category |-> category, family |-> family,
     ignore |-> FALSE, ignoreversion |-> FALSE]

Packages == {
    NewPackage(S_Foo, V_1_0, "x", "freebsd"),
    NewPackage(S_libfoo, V_1_2_3, "y", "debian"),
    NewPackage(S_a, V_1_2, "x", "debian"),
    NewPackage(S_backslash, V_1_0, "y", "freebsd") }

(***************************************************************************)
(* State                                                                   *)
(***************************************************************************)
VARIABLES
    rules,             \* self.rules, compiled; rules[i].matches is the counter
    rulepacks,         \* self.rulepacks
    names,             \* the variable names of __init__ the lambdas close over
    pc,                \* "idle", or the loop of Process that runs: "packs", "rules"
    package,           \* the package handed to Process
    transformed_name,  \* the local of Process
    pi, ri,            \* position in self.rulepacks and in the pack
    outcome,           \* how the last Process call ended: "returned", "raised"
    calls,             \* Process calls made
    entry,             \* self.rules when the running call began
    log,               \* the MatchRule calls of the running call, in order
    held,              \* rules whose conditions held when Process passed them
    threads,           \* per thread: the frame of its Process call
    counted            \* per rule: the matches the threads found

vars == <<rules, rulepacks, names, pc, package, transformed_name, pi, ri,
          outcome, calls, entry, log, held, threads, counted>>

Threads == 1..NumThreads

\* the frame of a thread that has not called Process yet
NoFrame == [pc |-> "idle", package |-> [name |-> <<>>], transformed_name |-> <<>>,
            pi |-> 1, ri |-> 1, seen |-> 0]

\* The state after PackageTransformer(rulestext=doc).  No Process call has
\* been made: package and transformed_name hold nothing yet.
Constructed(doc) ==
    /\ rules = CompileRules(doc)
    /\ rulepacks = BuildPacks(CompileRules(doc)).rulepacks
    /\ names = BuildPacks(CompileRules(doc)).names
    /\ pc = "idle"
    /\ package = [name |-> <<>>]
    /\ transformed_name = <<>>
    /\ pi = 1
    /\ ri = 1
    /\ outcome = "none"
    /\ calls = 0
    /\ entry = CompileRules(doc)
    /\ log = <<>>
    /\ held = {}
    /\ threads = [t \in Threads |-> NoFrame]
    /\ counted = [i \in DOMAIN doc |-> 0]

Init == \E doc \in RuleDocs : Constructed(doc)

\* Longer documents, of the rules that rename or flag and neither stop nor
\* test the version or the category.
LongPool ==
    {r \in RulePool :
        /\ {"last", "ver", "verlonger", "category"} \cap DOMAIN r = {}
        /\ "name" \in DOMAIN r => ToList(r.name) # <<>>}

RECURSIVE LongDocsOfLen(_)
LongDocsOfLen(n) ==
    IF n = 0 THEN {<<>>}
    ELSE {Append(d, r) : d \in LongDocsOfLen(n - 1), r \in LongPool}

InitLong == \E doc \in LongDocsOfLen(MaxRules + 1) : Constructed(doc)

(***************************************************************************)
(* Process                                                                 *)
(***************************************************************************)
\* precondition(transformed_name)
Precondition(p, name) == IF p.pre = "True" THEN TRUE ELSE name \in names

\* the rule the inner loop is at
CurRule == rulepacks[pi].pack[ri]

\* Process handing package.name, not transformed_name, to MatchRule
MatchArgOriginal == package.name

\* Process handing package.name, not transformed_name, to ApplyRule
ApplyArgOriginal == package.name

\* the name Process hands to MatchRule and to ApplyRule
MatchArg == transformed_name
ApplyArg == transformed_name

\* self.MatchRule(rule, transformed_name, package.version, ...)
Matches(r) ==
    MatchRule(rules[r], MatchArg, package.version, package.category, package.family)

\* the clearing tests before the setting tests
SetFlagsSetLast(pkg, flags) ==
    [pkg EXCEPT
        !.ignore = IF HasFlag(flags, ignorepackage) THEN TRUE
                   ELSE IF HasFlag(flags, unignorepackage) THEN FALSE ELSE @,
        !.ignoreversion = IF HasFlag(flags, ignoreversion) THEN TRUE
                          ELSE IF HasFlag(flags, unignoreversion) THEN FALSE ELSE @]

\* the four flag tests, in the order of the code
SetFlags(pkg, flags) ==
    [pkg EXCEPT
        !.ignore = IF HasFlag(flags, unignorepackage) THEN FALSE
                   ELSE IF HasFlag(flags, ignorepackage) THEN TRUE ELSE @,
        !.ignoreversion = IF HasFlag(flags, unignoreversion) THEN FALSE
                          ELSE IF HasFlag(flags, ignoreversion) THEN TRUE ELSE @]

\* package.effname = transformed_name.lower()
SetEffnameLower(pkg, name) == ("effname" :> Lower(name)) @@ pkg

\* package.name = package.effname = transformed_name
SetEffnameRename(pkg, name) == [("effname" :> name) @@ pkg EXCEPT !.name = name]

\* package.effname = transformed_name
SetEffname(pkg, name) == ("effname" :> name) @@ pkg

\* transformed_name = package.name
ProcessCall ==
    /\ pc = "idle"
    /\ calls < MaxCalls
    /\ \E p \in Packages :
        /\ package' = p
        /\ transformed_name' = p.name
    /\ pc' = "packs"
    /\ pi' = 1
    /\ ri' = 1
    /\ outcome' = "none"
    /\ calls' = calls + 1
    /\ entry' = rules
    /\ log' = <<>>
    /\ UNCHANGED <<rules, rulepacks, names, held, threads, counted>>

\* for precondition, rulepack in self.rulepacks: one iteration, or the end
PackStep ==
    /\ pc = "packs"
    /\ IF pi > Len(rulepacks)
       THEN /\ package' = SetEffname(package, transformed_name)
            /\ pc' = "idle"
            /\ outcome' = "returned"
            /\ UNCHANGED <<pi, ri, held>>
       ELSE IF ~Precondition(rulepacks[pi], transformed_name)
       THEN /\ pi' = pi + 1
            /\ held' = held \cup {rulepacks[pi].pack[k] : k \in
                                    {j \in DOMAIN rulepacks[pi].pack :
                                        Matches(rulepacks[pi].pack[j])}}
            /\ UNCHANGED <<package, pc, outcome, ri>>
       ELSE /\ pc' = "rules"
            /\ ri' = 1
            /\ UNCHANGED <<package, outcome, pi, held>>
    /\ UNCHANGED <<rules, rulepacks, names, transformed_name, calls, entry, log,
                   threads, counted>>

\* for rule in rulepack: one iteration, or the end of the pack
RuleStep ==
    /\ pc = "rules"
    /\ IF ri > Len(rulepacks[pi].pack)
       THEN /\ pc' = "packs"
            /\ pi' = pi + 1
            /\ UNCHANGED <<rules, package, transformed_name, ri, outcome, log, held>>
       ELSE IF ~Matches(CurRule)
       THEN /\ ri' = ri + 1
            /\ log' = Append(log, [rule |-> CurRule, name |-> MatchArg,
                                   matched |-> FALSE, applied |-> <<>>,
                                   raised |-> FALSE, out |-> transformed_name])
            /\ UNCHANGED <<rules, package, transformed_name, pc, pi, outcome, held>>
       ELSE LET r == CurRule
                res == ApplyRule(rules[r], ApplyArg, package.version)
            IN  /\ rules' = [rules EXCEPT ![r].matches = @ + 1]
                /\ held' = held \cup {r}
                /\ log' = Append(log, [rule |-> r, name |-> MatchArg,
                                       matched |-> TRUE, applied |-> ApplyArg,
                                       raised |-> res.raised, out |-> res.name])
                /\ IF res.raised
                   THEN /\ pc' = "idle"
                        /\ outcome' = "raised"
                        /\ UNCHANGED <<package, transformed_name, pi, ri>>
                   ELSE /\ transformed_name' = res.name
                        /\ IF HasFlag(res.flags, lastrule)
                           THEN /\ package' = SetEffname(SetFlags(package, res.flags),
                                                         res.name)
                                /\ pc' = "idle"
                                /\ outcome' = "returned"
                                /\ UNCHANGED <<pi, ri>>
                           ELSE /\ package' = SetFlags(package, res.flags)
                                /\ ri' = ri + 1
                                /\ UNCHANGED <<pc, pi, outcome>>
    /\ UNCHANGED <<rulepacks, names, calls, entry, threads, counted>>

\* GetUnmatchedRules()
RECURSIVE UnmatchedFrom(_, _)
UnmatchedFrom(rs, i) ==
    IF i > Len(rs) THEN <<>>
    ELSE (IF rs[i].matches = 0 THEN <<rs[i].pretty>> ELSE <<>>) \o UnmatchedFrom(rs, i + 1)

GetUnmatchedRules == UnmatchedFrom(rules, 1)

Next == ProcessCall \/ PackStep \/ RuleStep

Spec == Init /\ [][Next]_vars

\* the same transformer over the longer documents
SpecLong == InitLong /\ [][Next]_vars

(***************************************************************************)
(* Process called from several threads on one PackageTransformer.  A       *)
(* thread's package, transformed_name and loop positions are its own; the  *)
(* rules are shared.  rule['matches'] += 1 is a load of the item, an add   *)
(* and a store of the item, and the interpreter may switch threads between *)
(* the load and the store: they are two steps.  Nothing in the code locks  *)
(* or merges the counters.                                                 *)
(***************************************************************************)
\* the rule thread t is at
ThreadRule(t) == rulepacks[threads[t].pi].pack[threads[t].ri]

ThreadMatches(t, r) ==
    MatchRule(rules[r], threads[t].transformed_name, threads[t].package.version,
              threads[t].package.category, threads[t].package.family)

\* transformed_name = package.name
ThreadCall(t) ==
    /\ threads[t].pc = "idle"
    /\ \E p \in Packages :
        threads' = [threads EXCEPT ![t] =
                       [pc |-> "packs", package |-> p, transformed_name |-> p.name,
                        pi |-> 1, ri |-> 1, seen |-> 0]]
    /\ UNCHANGED <<rules, rulepacks, names, pc, package, transformed_name, pi, ri,
                   outcome, calls, entry, log, held, counted>>

\* for precondition, rulepack in self.rulepacks
ThreadPackStep(t) ==
    /\ threads[t].pc = "packs"
    /\ threads' = [threads EXCEPT ![t] =
          IF @.pi > Len(rulepacks)
          THEN [@ EXCEPT !.package = SetEffname(@, threads[t].transformed_name),
                         !.pc = "done"]
          ELSE IF ~Precondition(rulepacks[@.pi], @.transformed_name)
          THEN [@ EXCEPT !.pi = @ + 1]
          ELSE [@ EXCEPT !.pc = "rules", !.ri = 1]]
    /\ UNCHANGED <<rules, rulepacks, names, pc, package, transformed_name, pi, ri,
                   outcome, calls, entry, log, held, counted>>

\* for rule in rulepack, up to the load of rule['matches']
ThreadRuleStep(t) ==
    /\ threads[t].pc = "rules"
    /\ IF threads[t].ri > Len(rulepacks[threads[t].pi].pack)
       THEN /\ threads' = [threads EXCEPT ![t].pc = "packs", ![t].pi = @ + 1]
            /\ UNCHANGED counted
       ELSE IF ~ThreadMatches(t, ThreadRule(t))
       THEN /\ threads' = [threads EXCEPT ![t].ri = @ + 1]
            /\ UNCHANGED counted
       ELSE /\ threads' = [threads EXCEPT ![t].pc = "store",
                                          ![t].seen = rules[ThreadRule(t)].matches]
            /\ counted' = [counted EXCEPT ![ThreadRule(t)] = @ + 1]
    /\ UNCHANGED <<rules, rulepacks, names, pc, package, transformed_name, pi, ri,
                   outcome, calls, entry, log, held>>

\* the store of rule['matches'], then ApplyRule and the flags
ThreadStore(t) ==
    /\ threads[t].pc = "store"
    /\ LET r == ThreadRule(t)
           res == ApplyRule(rules[r], threads[t].transformed_name,
                            threads[t].package.version)
       IN  /\ rules' = [rules EXCEPT ![r].matches = threads[t].seen + 1]
           /\ threads' = [threads EXCEPT ![t] =
                 IF res.raised THEN [@ EXCEPT !.pc = "raised"]
                 ELSE IF HasFlag(res.flags, lastrule)
                 THEN [@ EXCEPT !.transformed_name = res.name,
                                !.package = SetEffname(SetFlags(@, res.flags), res.name),
                                !.pc = "done"]
                 ELSE [@ EXCEPT !.transformed_name = res.name,
                                !.package = SetFlags(@, res.flags),
                                !.pc = "rules",
                                !.ri = @ + 1]]
    /\ UNCHANGED <<rulepacks, names, pc, package, transformed_name, pi, ri,
                   outcome, calls, entry, log, held, counted>>

NextThreads ==
    \E t \in Threads :
        ThreadCall(t) \/ ThreadPackStep(t) \/ ThreadRuleStep(t) \/ ThreadStore(t)

SpecThreads == Init /\ [][NextThreads]_vars

(***************************************************************************)
(* Properties                                                              *)
(***************************************************************************)
\* a Process call has ended
Ended == pc = "idle" /\ calls > 0

\* what the caller sees of the ended call; effname is <<>> while unset
Seen(how, pkg) ==
    [outcome |-> how,
     effname |-> IF "effname" \in DOMAIN pkg THEN <<pkg.effname>> ELSE <<>>,
     ignore |-> pkg.ignore,
     ignoreversion |-> pkg.ignoreversion]

\* the reference evaluation: every rule of rs once, in order, none skipped
RECURSIVE RefFrom(_, _, _, _)
RefFrom(rs, i, pkg, name) ==
    IF i > Len(rs) THEN Seen("returned", SetEffname(pkg, name))
    ELSE IF ~MatchRule(rs[i], name, pkg.version, pkg.category, pkg.family)
    THEN RefFrom(rs, i + 1, pkg, name)
    ELSE LET res == ApplyRule(rs[i], name, pkg.version)
         IN  IF res.raised THEN Seen("raised", pkg)
             ELSE IF HasFlag(res.flags, lastrule)
             THEN Seen("returned", SetEffname(SetFlags(pkg, res.flags), res.name))
             ELSE RefFrom(rs, i + 1, SetFlags(pkg, res.flags), res.name)

Reference(rs, pkg) ==
    RefFrom(rs, 1, NewPackage(pkg.name, pkg.version, pkg.category, pkg.family), pkg.name)

\* C1: packing equivalence: an ended Process call shows the same effname,
\* ignore and ignoreversion as the reference evaluation of the rules in
\* original order, none skipped.
PackingEquivalence ==
    Ended => Seen(outcome, package) = Reference(entry, package)

\* the rule lists of all packs, in pack order
RECURSIVE ConcatPacks(_, _)
ConcatPacks(packs, k) ==
    IF k > Len(packs) THEN <<>> ELSE packs[k].pack \o ConcatPacks(packs, k + 1)

\* C2: the packs' rule lists, concatenated in pack order, are the original
\* rule sequence: every rule once, in its original order.
PacksReproduceRules ==
    ConcatPacks(rulepacks, 1) = [i \in 1..Len(rules) |-> i]

\* matches of rule i in the running call, by the log and by the counter
Tested(i) == {k \in DOMAIN log : log[k].rule = i}
Grown(i) == rules[i].matches - entry[i].matches

\* C3: last-stops-all: a matched rule that declares last is the last rule
\* the call tests; its flags and its name are applied, effname is the name
\* it produced and Process has returned.
LastStopsAll ==
    \A k \in DOMAIN log :
        (log[k].matched /\ "last" \in DOMAIN rules[log[k].rule]) =>
            /\ k = Len(log)
            /\ pc = "idle"
            /\ outcome = "returned"
            /\ ~log[k].raised
            /\ package.effname = log[k].out
            /\ "unignore" \in DOMAIN rules[log[k].rule] => ~package.ignore
            /\ "unignorever" \in DOMAIN rules[log[k].rule] => ~package.ignoreversion
            /\ \A i \in DOMAIN rules :
                   Grown(i) = Cardinality({j \in Tested(i) : log[j].matched})

\* the name the matches before test k left behind
RECURSIVE NameBefore(_)
NameBefore(k) ==
    IF k = 1 THEN package.name
    ELSE IF log[k - 1].matched THEN log[k - 1].out
    ELSE NameBefore(k - 1)

\* C4: cumulative renaming: the name handed to MatchRule, and to ApplyRule
\* on a match, is the name the most recently matched earlier rule produced,
\* or the package's name when none has matched.
CumulativeRenaming ==
    \A k \in DOMAIN log :
        /\ log[k].name = NameBefore(k)
        /\ log[k].matched => log[k].applied = NameBefore(k)

\* C4 witness: a rule matched the name another, earlier rule produced, which
\* is not the package's name.
CumulativeRenamingWitness ==
    \E k \in DOMAIN log :
        /\ k > 1
        /\ log[k - 1].matched
        /\ log[k - 1].rule # log[k].rule
        /\ log[k - 1].out # package.name
        /\ log[k].matched
        /\ log[k].name = log[k - 1].out

\* no rule's conditions hold for the package as handed over
MatchesNoRule ==
    \A i \in DOMAIN rules :
        ~MatchRule(rules[i], package.name, package.version, package.category,
                   package.family)

\* C5: no-match identity: a call on a package that matches no rule returns
\* with effname the package's name, both flags false and every counter as
\* it was.
NoMatchIdentity ==
    (Ended /\ MatchesNoRule) =>
        /\ outcome = "returned"
        /\ package.effname = package.name
        /\ ~package.ignore
        /\ ~package.ignoreversion
        /\ \A i \in DOMAIN rules : Grown(i) = 0

\* C5 witness: a call ended on a package that matches none of two rules,
\* one of them in a pack that was entered and tested.
NoMatchIdentityWitness ==
    /\ Ended
    /\ MatchesNoRule
    /\ Len(rules) = 2
    /\ Len(log) > 0
    /\ package.name # Lower(package.name)

Conditions == {"family", "category", "name", "namepat", "ver", "verpat", "verlonger"}

\* one declared condition of the rule holds
Holds(c, rule, name, version, category, family) ==
    CASE c = "family" -> family \in {rule.family[k] : k \in DOMAIN rule.family}
      [] c = "category" -> category \in {rule.category[k] : k \in DOMAIN rule.category}
      [] c = "name" -> name \in {rule.name[k] : k \in DOMAIN rule.name}
      [] c = "namepat" -> Match(rule.namepat, name).ok
      [] c = "ver" -> version \in {rule.ver[k] : k \in DOMAIN rule.ver}
      [] c = "verpat" -> Match(rule.verpat, version).ok
      [] c = "verlonger" -> SplitCount(version) >= rule.verlonger + 1

\* the test the inner loop of Process is about to make
Testing == pc = "rules" /\ ri <= Len(rulepacks[pi].pack)

\* C6: MatchRule is true exactly when every condition the rule declares
\* holds; an undeclared condition never causes a mismatch.
MatchRuleIsConjunction ==
    Testing =>
        (Matches(CurRule) <=>
            \A c \in Conditions \cap DOMAIN rules[CurRule] :
                Holds(c, rules[CurRule], transformed_name, package.version,
                      package.category, package.family))

\* C6 witness: a rule that declares no condition matches, after a rule that
\* declares several conditions, of which one holds and one fails, did not.
MatchRuleIsConjunctionWitness ==
    /\ Testing
    /\ Conditions \cap DOMAIN rules[CurRule] = {}
    /\ Matches(CurRule)
    /\ \E k \in DOMAIN log :
        /\ ~log[k].matched
        /\ \E c, d \in Conditions \cap DOMAIN rules[log[k].rule] :
            /\ Holds(c, rules[log[k].rule], log[k].name, package.version,
                     package.category, package.family)
            /\ ~Holds(d, rules[log[k].rule], log[k].name, package.version,
                      package.category, package.family)

\* the saved texts of the rules, in order, whose conditions never held
RECURSIVE NeverHeld(_)
NeverHeld(i) ==
    IF i > Len(rules) THEN <<>>
    ELSE (IF i \in held THEN <<>> ELSE <<rules[i].pretty>>) \o NeverHeld(i + 1)

\* C7: diagnostics: between calls, GetUnmatchedRules is the saved text, in
\* rule order, of exactly the rules whose conditions never held for the
\* current name when Process passed them.
UnmatchedAreNeverHeld ==
    pc = "idle" => GetUnmatchedRules = NeverHeld(1)

\* C8: every rule set the constructor accepts is processed without an
\* error: no Process call raises, and an ended call has set effname.
ProcessNeverRaises ==
    /\ outcome # "raised"
    /\ Ended => "effname" \in DOMAIN package

\* C9: one pass: a call tests each rule at most once and grows its match
\* counter by at most 1.
AtMostOnePass ==
    \A i \in DOMAIN rules :
        /\ Cardinality(Tested(i)) <= 1
        /\ Grown(i) <= 1

\* the template with every $N replaced by group N of the match
RECURSIVE WithGroups(_, _)
WithGroups(template, groups) ==
    IF template = <<>> THEN <<>>
    ELSE IF template[1] = "$" /\ DigitRun(template, 2) > 0
    THEN LET n == DigitRun(template, 2)
             g == IntOf(SubSeq(template, 2, n + 1))
         IN  (IF g + 1 <= Len(groups) THEN groups[g + 1] ELSE <<>>)
             \o WithGroups(SubSeq(template, n + 2, Len(template)), groups)
    ELSE <<template[1]>> \o WithGroups(Tail(template), groups)

\* C10: template substitution: a matched rule with setname (and no other
\* renaming) produces the template with every $N replaced by group N of
\* the match of its namepat, or, without namepat, the template with every
\* $0 replaced by the current name.
TemplateSubstitution ==
    \A k \in DOMAIN log :
        LET rule == rules[log[k].rule]
        IN  (/\ log[k].matched
             /\ "setname" \in DOMAIN rule
             /\ {"replaceinname", "tolowername"} \cap DOMAIN rule = {}) =>
                /\ ~log[k].raised
                /\ log[k].out =
                      IF "namepat" \in DOMAIN rule
                      THEN WithGroups(rule.setname,
                                      Match(rule.namepat, log[k].applied).groups)
                      ELSE Replace(rule.setname, <<"$", "0">>, log[k].applied)

\* the first n pairs applied one after the other, each to the result of
\* the one before
RECURSIVE Sequentially(_, _, _)
Sequentially(s, items, n) ==
    IF n = 0 THEN s
    ELSE Replace(Sequentially(s, items, n - 1), items[n][1], items[n][2])

\* a matched rule whose only renaming is replaceinname
OnlyReplaces(k) ==
    /\ log[k].matched
    /\ "replaceinname" \in DOMAIN rules[log[k].rule]
    /\ {"setname", "tolowername"} \cap DOMAIN rules[log[k].rule] = {}

\* C11: replaceinname applies its pairs as literal replacements in declared
\* order, each on the output of the previous one: {a: b, b: c} turns the
\* name a into c.
ReplaceInNameSequential ==
    \A k \in DOMAIN log :
        OnlyReplaces(k) =>
            /\ ~log[k].raised
            /\ log[k].out =
                  Sequentially(log[k].applied, rules[log[k].rule].replaceinname,
                               Len(rules[log[k].rule].replaceinname))
            /\ (/\ rules[log[k].rule].replaceinname = <<<<S_a, S_b>>, <<S_b, S_c>>>>
                /\ log[k].applied = S_a) => log[k].out = S_c

\* C11 witness: the map {a: b, b: c} was applied to the name a.
ReplaceInNameSequentialWitness ==
    \E k \in DOMAIN log :
        /\ OnlyReplaces(k)
        /\ rules[log[k].rule].replaceinname = <<<<S_a, S_b>>, <<S_b, S_c>>>>
        /\ log[k].applied = S_a
        /\ log[k].out = S_c

\* the number of '.' in s
RECURSIVE DotsIn(_)
DotsIn(s) == IF s = <<>> THEN 0 ELSE (IF Head(s) = "." THEN 1 ELSE 0) + DotsIn(Tail(s))

\* verlonger is the only condition the rule declares
OnlyVerlonger(r) == Conditions \cap DOMAIN rules[r] = {"verlonger"}

\* C12: a rule with verlonger: N matches a version exactly when its number
\* of '.' plus one is greater than N; exactly N components do not match.
VerlongerStrict ==
    \A k \in DOMAIN log :
        OnlyVerlonger(log[k].rule) =>
            /\ log[k].matched <=>
                   DotsIn(package.version) + 1 > rules[log[k].rule].verlonger
            /\ DotsIn(package.version) + 1 = rules[log[k].rule].verlonger
                   => ~log[k].matched

\* C12 witness: the rule matched the package of an earlier call and does not
\* match this one, whose version has exactly N components.
VerlongerStrictWitness ==
    /\ Len(rules) = 1
    /\ OnlyVerlonger(1)
    /\ entry[1].matches = 1
    /\ Len(log) = 1
    /\ ~log[1].matched
    /\ DotsIn(package.version) + 1 = rules[1].verlonger

\* every thread's Process call is over
ThreadsEnded == \A t \in Threads : threads[t].pc \in {"done", "raised"}

\* C13: concurrent Process calls lose no match-counter increment: when all
\* threads have finished, each rule's counter is the number of times the
\* rule matched across the processed packages.
NoLostIncrement ==
    ThreadsEnded => \A i \in DOMAIN rules : rules[i].matches = counted[i]

\* the names the rules of pack k declare
OwnNames(k) ==
    UNION {{rules[r].name[j] : j \in DOMAIN rules[r].name} :
              r \in {rulepacks[k].pack[j] : j \in DOMAIN rulepacks[k].pack}}

\* C14: the precondition of a pack of rules that declare names is true for
\* a name exactly when the name is in the union of the name lists of that
\* pack's own rules, whatever follows the pack.
PackTestsOwnNames ==
    (pc = "packs" /\ pi <= Len(rulepacks) /\ rulepacks[pi].pre # "True") =>
        (Precondition(rulepacks[pi], transformed_name)
            <=> transformed_name \in OwnNames(pi))

\* Process is at pack pi with a name an earlier matched rule produced, and
\* a rule of the pack declares that name and all its conditions hold
RenamedInto(k) ==
    /\ pc = "packs"
    /\ k = pi
    /\ k <= Len(rulepacks)
    /\ rulepacks[k].pre # "True"
    /\ \E e \in DOMAIN log :
        /\ log[e].matched
        /\ ~log[e].raised
        /\ log[e].out = transformed_name
        /\ log[e].out # package.name
    /\ \E j \in DOMAIN rulepacks[k].pack : Matches(rulepacks[k].pack[j])

\* C15: renaming opens a later pack: when an earlier matched rule has
\* renamed the package to N and Process reaches a later pack with a rule
\* that declares name N, all its conditions holding, the pack is entered.
RenamingOpensLaterPack ==
    \A k \in DOMAIN rulepacks :
        RenamedInto(k) => Precondition(rulepacks[k], transformed_name)

\* the name after the setname step of the rule of event k
AfterTemplate(k) ==
    IF "setname" \in DOMAIN rules[log[k].rule]
    THEN SetName(rules[log[k].rule], log[k].applied).out
    ELSE log[k].applied

\* the name after the replaceinname step, made from the template's result
AfterReplacements(k) ==
    IF "replaceinname" \in DOMAIN rules[log[k].rule]
    THEN Sequentially(AfterTemplate(k), rules[log[k].rule].replaceinname,
                      Len(rules[log[k].rule].replaceinname))
    ELSE AfterTemplate(k)

\* the name after the tolowername step, made from the replacements' result
AfterLowering(k) ==
    IF "tolowername" \in DOMAIN rules[log[k].rule]
    THEN Lower(AfterReplacements(k))
    ELSE AfterReplacements(k)

\* C16: ApplyRule computes the new name in the order setname template, then
\* replaceinname on the template's result, then tolowername on the result
\* of the replacements.
ApplyOrder ==
    \A k \in DOMAIN log :
        (log[k].matched /\ ~log[k].raised) => log[k].out = AfterLowering(k)

\* C16 witness: a rule declaring setname A$0, replaceinname {A: X} and
\* tolowername was applied to the name a and gave xa (any other order
\* gives aa).
ApplyOrderWitness ==
    \E k \in DOMAIN log :
        /\ log[k].matched
        /\ ~log[k].raised
        /\ {"setname", "replaceinname", "tolowername"} \subseteq DOMAIN rules[log[k].rule]
        /\ log[k].applied = S_a
        /\ log[k].out = S_xa

\* the flag the first k tested rules leave, by the last matched one that
\* declares the setting key or the clearing key; a package arrives with
\* the flag false
RECURSIVE FlagAfter(_, _, _)
FlagAfter(k, setkey, clearkey) ==
    IF k = 0 THEN FALSE
    ELSE IF log[k].matched /\ clearkey \in DOMAIN rules[log[k].rule] THEN FALSE
    ELSE IF log[k].matched /\ setkey \in DOMAIN rules[log[k].rule] THEN TRUE
    ELSE FlagAfter(k - 1, setkey, clearkey)

\* the call went through every pack
RanThrough == pi > Len(rulepacks)

\* C17: after Process, ignore is what the last matched rule declaring
\* ignore or unignore says and ignoreversion what the last matched rule
\* declaring ignorever or unignorever says, each untouched by the other
\* kind and by rules declaring neither; a matched rule without last does
\* not end the call.
FlagsFollowMatchedRules ==
    Ended =>
        /\ package.ignore = FlagAfter(Len(log), "ignore", "unignore")
        /\ package.ignoreversion = FlagAfter(Len(log), "ignorever", "unignorever")
        /\ (/\ log # <<>>
            /\ log[Len(log)].matched
            /\ "last" \notin DOMAIN rules[log[Len(log)].rule]) => RanThrough

\* the same for the calls that returned
FlagsFollowAppliedRules ==
    (Ended /\ outcome = "returned") =>
        /\ package.ignore = FlagAfter(Len(log), "ignore", "unignore")
        /\ package.ignoreversion = FlagAfter(Len(log), "ignorever", "unignorever")
        /\ (/\ log # <<>>
            /\ log[Len(log)].matched
            /\ "last" \notin DOMAIN rules[log[Len(log)].rule]) => RanThrough

\* the rule set as Process is not allowed to touch it: everything but the
\* match counters
Static(rs) ==
    [i \in DOMAIN rs |-> [f \in DOMAIN rs[i] \ {"matches"} |-> rs[i][f]]]

\* the fields of the package that Process only reads
Identity(pkg) ==
    [name |-> pkg.name, version |-> pkg.version, category |-> pkg.category,
     family |-> pkg.family]

\* a step of Process: PackStep or RuleStep
InProcess == pc \in {"packs", "rules"}

\* the step tests rule i and its conditions hold
CountsHere(i) ==
    /\ pc = "rules"
    /\ ri <= Len(rulepacks[pi].pack)
    /\ CurRule = i
    /\ Matches(i)

\* C18: a step of Process changes nothing but the match counter of a rule
\* whose conditions held and the package's effname, ignore and
\* ignoreversion: a skipped pack's rules and a tested rule that did not
\* match keep their counters, the compiled rules' other fields, the packs
\* and the package's name, version, category and family stay as they were.
ProcessFrame ==
    [][InProcess =>
        /\ Static(rules') = Static(rules)
        /\ rulepacks' = rulepacks
        /\ names' = names
        /\ Identity(package') = Identity(package)
        /\ \A i \in DOMAIN rules :
              /\ ~CountsHere(i) => rules'[i].matches = rules[i].matches
              /\ CountsHere(i) => rules'[i].matches = rules[i].matches + 1]_vars

\* C18 witness: a call has ended in which a pack was skipped, a rule was
\* tested without matching and another rule matched, and effname is set.
ProcessFrameWitness ==
    /\ Ended
    /\ outcome = "returned"
    /\ "effname" \in DOMAIN package
    /\ \E p \in DOMAIN rulepacks :
          \A j \in DOMAIN rulepacks[p].pack, k \in DOMAIN log :
              log[k].rule # rulepacks[p].pack[j]
    /\ \E j, k \in DOMAIN log : ~log[j].matched /\ log[k].matched
    /\ \E i \in DOMAIN rules : rules[i].matches > entry[i].matches

\* event k is a matched rule that declares both namepat and setname
PatternRename(k) ==
    /\ log[k].matched
    /\ {"namepat", "setname"} \subseteq DOMAIN rules[log[k].rule]

\* C19: whenever Process applies a rule declaring both namepat and setname,
\* the pattern matches the name given to ApplyRule, which is the name
\* MatchRule accepted, so the capture-group substitution is the one used;
\* the $0 fallback is reached only for rules without namepat.
PatternRenameUsesGroups ==
    \A k \in DOMAIN log :
        PatternRename(k) =>
            /\ log[k].applied = log[k].name
            /\ Match(rules[log[k].rule].namepat, log[k].applied).ok
            /\ SetName(rules[log[k].rule], log[k].applied) =
                  DollarNSub(rules[log[k].rule].setname,
                             Match(rules[log[k].rule].namepat, log[k].applied))

\* C19 witness: after an earlier rule renamed Foo to libFoo, a rule with
\* the pattern lib and the template $1 was applied and gave Foo.
PatternRenameUsesGroupsWitness ==
    \E k \in DOMAIN log :
        /\ PatternRename(k)
        /\ k > 1
        /\ log[k].applied # package.name
        /\ ~log[k].raised
        /\ log[k].out = S_Foo

\* the rule applied last in the running call declares both keys
LastAppliedDeclares(setkey, clearkey) ==
    /\ log # <<>>
    /\ log[Len(log)].matched
    /\ ~log[Len(log)].raised
    /\ {setkey, clearkey} \subseteq DOMAIN rules[log[Len(log)].rule]

\* C20: after a matched rule declaring both ignore and unignore is applied
\* the package's ignore flag is false, and after one declaring both
\* ignorever and unignorever its ignoreversion flag is false.
ClearWinsOverSet ==
    /\ LastAppliedDeclares("ignore", "unignore") => ~package.ignore
    /\ LastAppliedDeclares("ignorever", "unignorever") => ~package.ignoreversion

\* C20 witness: a rule declaring ignore, unignore, ignorever and
\* unignorever was applied to a package whose ignore flag an earlier rule
\* had set.
ClearWinsOverSetWitness ==
    /\ LastAppliedDeclares("ignore", "unignore")
    /\ LastAppliedDeclares("ignorever", "unignorever")
    /\ Len(log) > 1
    /\ log[Len(log) - 1].matched
    /\ "ignore" \in DOMAIN rules[log[Len(log) - 1].rule]
    /\ "unignore" \notin DOMAIN rules[log[Len(log) - 1].rule]
    /\ ~package.ignore

====
